---- MODULE Spec2Model ----
(***************************************************************************)
(* Model of PalatineSpeechNode.execute (n8n-nodes-palatine-speech): the    *)
(* submit -> poll -> classify -> unwrap -> normalise life cycle of one     *)
(* execution over its input items, and the pure helpers it is built from.  *)
(*                                                                         *)
(* JavaScript values are tagged records; a JavaScript string is the tuple  *)
(* of its characters, so that trim() and toLowerCase() are computed.       *)
(***************************************************************************)
EXTENDS Integers, Sequences, FiniteSets, TLC

VARIABLES
    items,            \* getInputData(): the input items (their binary bags)
    continueOnFail,   \* what this.continueOnFail() answers in this run
    returnData,       \* the output collection
    i,                \* index of the item being processed (0-based)
    pc,               \* position of the control flow inside execute
    task, model, binaryData,          \* per-item locals (lines 259-272)
    pollIntervalMs, maxPollAttempts,  \* per-item poll policy, after the clamp
    url, qs,                          \* the submission request's target
    createResp, taskId, statusPayload, finalResponse, completed, attempt,
    error,            \* the error in flight to the catch block
    nCreate, nStatus, nSleep,   \* requests and sleeps issued so far for item i
    slept,            \* the duration handed to the latest sleep() of item i
    submitted, polled,  \* the items a submission / a status request was issued for
    outcome,          \* per item: how its processing ended
    probe, verdict    \* a status payload under test and its classification

host == <<items, continueOnFail>>
config == <<task, model, binaryData, pollIntervalMs, maxPollAttempts, url, qs>>
polling == <<createResp, taskId, statusPayload, finalResponse, completed, attempt>>
counters == <<nCreate, nStatus, nSleep, slept>>
probing == <<probe, verdict>>

vars == <<host, returnData, i, pc, config, polling, error, counters, submitted,
          polled, outcome, probing>>

-----------------------------------------------------------------------------
(* JavaScript values *)

Undef == [t |-> "undefined"]
Null == [t |-> "null"]
Str(s) == [t |-> "string", s |-> s]
Num(n) == [t |-> "number", n |-> n]
Bool(b) == [t |-> "boolean", b |-> b]
Arr(a) == [t |-> "array", a |-> a]
Obj(f) == [t |-> "object", f |-> f]
EmptyObj == Obj(<<>>)

\* JSON.stringify(v): the serialised text of v, a non-empty string that is
\* different for different v.
JSONstringify(v) == [t |-> "string", json |-> v]

\* v.k, and v?.k: a missing property reads as undefined; so does any property
\* of a primitive, and ?. makes null and undefined read as undefined too.
Get(v, k) == IF v.t = "object" /\ k \in DOMAIN v.f THEN v.f[k] ELSE Undef

\* ToBoolean(v)
Truthy(v) ==
    CASE v.t = "undefined" -> FALSE
      [] v.t = "null" -> FALSE
      [] v.t = "string" -> IF "s" \in DOMAIN v THEN v.s # <<>> ELSE TRUE
      [] v.t = "number" -> v.n # 0
      [] v.t = "boolean" -> v.b
      [] OTHER -> TRUE

\* a || b
OrElse(a, b) == IF Truthy(a) THEN a ELSE b

\* a ?? b
Coalesce(a, b) == IF a.t \in {"undefined", "null"} THEN b ELSE a

-----------------------------------------------------------------------------
(* Strings as character tuples *)

WhiteSpace == {" ", "\t", "\n"}

UpperCase ==
    [A |-> "a", B |-> "b", C |-> "c", D |-> "d", E |-> "e", F |-> "f",
     G |-> "g", H |-> "h", I |-> "i", J |-> "j", K |-> "k", L |-> "l",
     M |-> "m", N |-> "n", O |-> "o", P |-> "p", Q |-> "q", R |-> "r",
     S |-> "s", T |-> "t", U |-> "u", V |-> "v", W |-> "w", X |-> "x",
     Y |-> "y", Z |-> "z"]

\* String.prototype.toLowerCase
toLowerCase(s) ==
    [n \in 1..Len(s) |-> IF s[n] \in DOMAIN UpperCase THEN UpperCase[s[n]] ELSE s[n]]

RECURSIVE trimStart(_)
trimStart(s) ==
    IF s # <<>> /\ Head(s) \in WhiteSpace THEN trimStart(Tail(s)) ELSE s

RECURSIVE trimEnd(_)
trimEnd(s) ==
    IF s # <<>> /\ s[Len(s)] \in WhiteSpace
    THEN trimEnd(SubSeq(s, 1, Len(s) - 1))
    ELSE s

\* String.prototype.trim
trim(s) == trimEnd(trimStart(s))

-----------------------------------------------------------------------------
(* The pure helpers of execute *)

\* the mutant of normalizeStatus that forgets to case-fold
normalizeStatusNoFold(s) == IF s.t = "string" THEN trim(s.s) ELSE <<>>

\* normalizeStatus (line 220): '' for a non-string
normalizeStatus(s) == IF s.t = "string" THEN toLowerCase(trim(s.s)) ELSE <<>>

\* the status string both classifiers resolve (lines 223-226, 242-245)
ResolveStatus(statusPayload_) ==
    LET a == normalizeStatus(Get(statusPayload_, "status"))
        b == normalizeStatus(Get(statusPayload_, "state"))
        c == normalizeStatus(Get(statusPayload_, "task_status"))
    IN  IF a # <<>> THEN a ELSE IF b # <<>> THEN b ELSE c

SuccessWords ==
    { <<"c","o","m","p","l","e","t","e","d">>, <<"d","o","n","e">>,
      <<"s","u","c","c","e","s","s">>, <<"f","i","n","i","s","h","e","d">> }

ProcessingWords ==
    { <<"q","u","e","u","e","d">>, <<"p","e","n","d","i","n","g">>,
      <<"p","r","o","c","e","s","s","i","n","g">>, <<"r","u","n","n","i","n","g">>,
      <<"i","n","_","p","r","o","g","r","e","s","s">> }

FailureWords ==
    { <<"f","a","i","l","e","d">>, <<"e","r","r","o","r">>,
      <<"c","a","n","c","e","l","e","d">>, <<"c","a","n","c","e","l","l","e","d">> }

ResultFields == <<"result", "data", "output", "response">>

hasResult(statusPayload_) ==
    \E n \in 1..Len(ResultFields) : Get(statusPayload_, ResultFields[n]) # Undef

\* the mutant of isTerminalSuccess that trusts a result field only when the
\* payload carries no status at all
isTerminalSuccessNoStatusOnly(statusPayload_) ==
    LET s == ResolveStatus(statusPayload_)
    IN  IF s \in SuccessWords THEN TRUE
        ELSE hasResult(statusPayload_) /\ s = <<>>

\* the mutant of isTerminalSuccess that lets a result field decide alone
isTerminalSuccessResultWins(statusPayload_) ==
    \/ ResolveStatus(statusPayload_) \in SuccessWords
    \/ hasResult(statusPayload_)

\* isTerminalSuccess (lines 222-239)
isTerminalSuccess(statusPayload_) ==
    LET s == ResolveStatus(statusPayload_)
        looksProcessing == s \in ProcessingWords
    IN  IF s \in SuccessWords THEN TRUE
        ELSE hasResult(statusPayload_) /\ ~looksProcessing

\* isTerminalFailure (lines 241-248)
isTerminalFailure(statusPayload_) == ResolveStatus(statusPayload_) \in FailureWords

\* undefined alone gives way to the other value
OrUndefined(a, b) == IF a = Undef THEN b ELSE a

\* the mutant of unwrapFinalPayload that stops at a field holding null
unwrapFinalPayloadNullStops(statusPayload_) ==
    OrUndefined(Get(statusPayload_, "result"),
      OrUndefined(Get(statusPayload_, "data"),
        OrUndefined(Get(statusPayload_, "output"),
          OrUndefined(Get(statusPayload_, "response"), statusPayload_))))

\* the mutant of unwrapFinalPayload that hands on the whole payload
unwrapFinalPayloadWhole(statusPayload_) == statusPayload_

\* unwrapFinalPayload (lines 250-255)
unwrapFinalPayload(statusPayload_) ==
    Coalesce(Get(statusPayload_, "result"),
      Coalesce(Get(statusPayload_, "data"),
        Coalesce(Get(statusPayload_, "output"),
          Coalesce(Get(statusPayload_, "response"), statusPayload_))))

\* the mutant of extractTaskId that forgets the id nested under task
extractTaskIdNoNested(resp) ==
    IF ~Truthy(resp) \/ resp.t \notin {"object", "array"} THEN Undef
    ELSE OrElse(Get(resp, "task_id"), OrElse(Get(resp, "taskId"), Get(resp, "id")))

\* extractTaskId (lines 215-218)
extractTaskId(resp) ==
    IF ~Truthy(resp) \/ resp.t \notin {"object", "array"} THEN Undef
    ELSE OrElse(Get(resp, "task_id"),
           OrElse(Get(resp, "taskId"),
             OrElse(Get(resp, "id"), Get(Get(resp, "task"), "id"))))

\* the mutant of Classify that tests for success before failure
ClassifySuccessFirst(statusPayload_) ==
    IF isTerminalSuccess(statusPayload_) THEN "success"
    ELSE IF isTerminalFailure(statusPayload_) THEN "failure"
    ELSE "running"

\* How one poll of the loop body classifies a status response (lines 400-416):
\* the failure test comes first, then the success test, else the sleep.
Classify(statusPayload_) ==
    IF isTerminalFailure(statusPayload_) THEN "failure"
    ELSE IF isTerminalSuccess(statusPayload_) THEN "success"
    ELSE "running"

-----------------------------------------------------------------------------
(* Bounds of the model, and the inputs drawn within them *)

MaxItems == 2       \* the longest input list
MaxAttempts == 2    \* the largest attempt limit enumerated for an item
MaxLiveItems == 1   \* the longest input list of the runs checked for termination

\* every string the host or the backend supplies, as its characters
abc == <<"a","b","c">>
hello == <<"h","e","l","l","o">>
badAudio == <<"b","a","d"," ","a","u","d","i","o">>
star == <<"*">>

\* the binary attachment of input item k: its bag holds one file, under "data"
File(k) == Obj([id |-> Num(k), fileName |-> Str(<<"f">>), mimeType |-> Str(<<"m">>)])
Item(k) == [binary |-> Obj([data |-> File(k)])]
ItemLists == { [k \in 1..n |-> Item(k - 1)] : n \in 0..MaxItems }

TaskTags == {"transcribe", "diarize", "sentiment", "summarize", "translate"}
Models == {"palatine_small", "palatine_large_highspeed"}
BinaryProperties == {"data", "audio"}
SummarizeTasks == {"", "meeting_summary", "user_prompt"}
Prompts == {<<>>, <<" ">>, <<" ","h","i"," ">>}
ThinkingFlags == {FALSE}

\* this.getNode().parameters: the keys the user's workflow stores
ParamValues(key) ==
    CASE key = "pollIntervalMs" -> {Num(100), Num(700)}
      [] key = "pollIntervalMsSummarize" -> {Num(900001)}
      [] key = "maxPollAttempts" -> {Num(n) : n \in 0..MaxAttempts} \cup {Num(200)}
      [] key = "maxPollAttemptsSummarize" -> {Num(n) : n \in 1..MaxAttempts}
ParamKeys == {"pollIntervalMs", "pollIntervalMsSummarize", "maxPollAttempts",
              "maxPollAttemptsSummarize"}
NodeParams ==
    UNION { { f \in [K -> UNION {ParamValues(k) : k \in K}] :
                \A k \in K : f[k] \in ParamValues(k) } : K \in SUBSET ParamKeys }

\* what the backend answers to the submission
CreateResponses ==
    { Obj([task_id |-> Str(abc)]),
      Obj([segments |-> Arr(<<Str(<<"s","1">>)>>)]) }

\* what the backend answers to a status request
StatusResponses ==
    { Obj([status |-> Str(<<"p","r","o","c","e","s","s","i","n","g">>)]),
      Obj([status |-> Str(<<"q","u","e","u","e","d">>), result |-> Str(hello)]),
      Obj([status |-> Str(<<"c","o","m","p","l","e","t","e","d">>),
           result |-> Obj([text |-> Str(hello)])]),
      Obj([data |-> Obj([text |-> Str(hello)])]),
      Obj([status |-> Str(<<"f","a","i","l","e","d">>), error |-> Str(badAudio)]),
      Obj([status |-> Str(<<"f","a","i","l","e","d">>), error |-> Str(badAudio),
           result |-> Obj([text |-> Str(hello)])]),
      Obj([state |-> Str(<<"E","R","R","O","R">>), message |-> Str(<<"q">>)]),
      Obj([task_status |-> Str(<<" ","C","a","n","c","e","l","l","e","d">>)]) }

TransportErrors == {"ECONNRESET"}

-----------------------------------------------------------------------------
(* Parameters and the poll policy (lines 286-318) *)

PollIntervalMin == 500
PollIntervalMax == 900000
MaxPollAttemptsMin == 1
MaxPollAttemptsMax == 1000
DefaultPollIntervalMs == 500
DefaultPollIntervalMsSummarize == 20000
DefaultMaxPollAttempts == 200
DefaultMaxPollAttemptsSummarize == 500
LegacyIntervalDefaultA == 500
LegacyIntervalDefaultB == 1000
LegacyAttemptsDefaultA == 200
LegacyAttemptsDefaultB == 300

Min(a, b) == IF a < b THEN a ELSE b
Max(a, b) == IF a > b THEN a ELSE b

\* this.getNodeParameter(name, i): the stored value, else the declared default
getNodeParameter(nodeParams, name, default) ==
    IF name \in DOMAIN nodeParams THEN nodeParams[name].n ELSE default

\* NaN, the number that Number() gives for what is no number
NaN == [t |-> "number", nan |-> TRUE]
isNaN(v) == "nan" \in DOMAIN v

Digit ==
    ("0" :> 0) @@ ("1" :> 1) @@ ("2" :> 2) @@ ("3" :> 3) @@ ("4" :> 4) @@
    ("5" :> 5) @@ ("6" :> 6) @@ ("7" :> 7) @@ ("8" :> 8) @@ ("9" :> 9)

RECURSIVE parseDigits(_)
parseDigits(s) ==
    IF s = <<>> THEN 0
    ELSE parseDigits(SubSeq(s, 1, Len(s) - 1)) * 10 + Digit[s[Len(s)]]

\* Number(v) (lines 299, 306): a number is itself; a string is trimmed, then
\* '' is 0, a run of decimal digits is its value, anything else NaN; null is
\* 0, a boolean 0 or 1, undefined and objects NaN
Number(v) ==
    CASE v.t = "number" -> v
      [] v.t = "string" ->
            LET t == trim(v.s)
            IN  IF \A n \in 1..Len(t) : t[n] \in DOMAIN Digit
                THEN Num(parseDigits(t))
                ELSE NaN
      [] v.t = "null" -> Num(0)
      [] v.t = "boolean" -> Num(IF v.b THEN 1 ELSE 0)
      [] OTHER -> NaN

\* the mutant of summarizeInterval that lets the legacy key win whenever set
summarizeIntervalLegacyWins(nodeParams) ==
    IF "pollIntervalMs" \in DOMAIN nodeParams /\ ~isNaN(Number(nodeParams["pollIntervalMs"]))
    THEN Number(nodeParams["pollIntervalMs"]).n
    ELSE getNodeParameter(nodeParams, "pollIntervalMsSummarize",
                          DefaultPollIntervalMsSummarize)

\* lines 293, 297-303: the summarize interval before the clamp
summarizeInterval(nodeParams) ==
    LET own == getNodeParameter(nodeParams, "pollIntervalMsSummarize",
                                DefaultPollIntervalMsSummarize)
        legacy == Number(nodeParams["pollIntervalMs"])
    IN  IF /\ "pollIntervalMsSummarize" \notin DOMAIN nodeParams
           /\ "pollIntervalMs" \in DOMAIN nodeParams
           /\ ~isNaN(legacy)
           /\ legacy.n # LegacyIntervalDefaultA
           /\ legacy.n # LegacyIntervalDefaultB
        THEN legacy.n
        ELSE own

\* lines 294, 304-310: the summarize attempt limit before the clamp
summarizeAttempts(nodeParams) ==
    LET own == getNodeParameter(nodeParams, "maxPollAttemptsSummarize",
                                DefaultMaxPollAttemptsSummarize)
        legacy == Number(nodeParams["maxPollAttempts"])
    IN  IF /\ "maxPollAttemptsSummarize" \notin DOMAIN nodeParams
           /\ "maxPollAttempts" \in DOMAIN nodeParams
           /\ ~isNaN(legacy)
           /\ legacy.n # LegacyAttemptsDefaultA
           /\ legacy.n # LegacyAttemptsDefaultB
        THEN legacy.n
        ELSE own

\* the mutant of clampInterval that forgets the upper bound
clampIntervalNoCeiling(ms) == Max(PollIntervalMin, ms)

\* line 317
clampInterval(ms) == Min(PollIntervalMax, Max(PollIntervalMin, ms))
\* line 318
clampAttempts(n) == Min(MaxPollAttemptsMax, Max(MaxPollAttemptsMin, n))

\* lines 292-318: the policy used for an item
pollPolicy(task_, nodeParams) ==
    IF task_ = "summarize"
    THEN [interval |-> clampInterval(summarizeInterval(nodeParams)),
          attempts |-> clampAttempts(summarizeAttempts(nodeParams))]
    ELSE [interval |-> clampInterval(getNodeParameter(nodeParams, "pollIntervalMs",
                                                      DefaultPollIntervalMs)),
          attempts |-> clampAttempts(getNodeParameter(nodeParams, "maxPollAttempts",
                                                      DefaultMaxPollAttempts))]

-----------------------------------------------------------------------------
(* Errors and output records *)

NodeOperationError(message, itemIndex) ==
    [name |-> "NodeOperationError", message |-> message, itemIndex |-> itemIndex]

\* the mutant of NodeApiError that loses the item index
NodeApiErrorNoIndex(cause, itemIndex) ==
    [name |-> "NodeApiError", message |-> [text |-> "api", cause |-> cause],
     itemIndex |-> -1]

\* request (lines 207-213) wraps what the transport throws
NodeApiError(cause, itemIndex) ==
    [name |-> "NodeApiError", message |-> [text |-> "api", cause |-> cause],
     itemIndex |-> itemIndex]

\* line 269
NoBinaryMessage(binaryProperty) ==
    [text |-> "No binary data in property", property |-> binaryProperty]
\* line 338
NoSummarizeTaskMessage == [text |-> "Summarize: summarizeTask is missing"]
\* line 355
UnknownTaskMessage(task_) == [text |-> "Unknown task", task |-> task_]

\* the mutant of FailedMessage that reads the message field only
FailedMessageNoErrorField(taskId_, statusPayload_) ==
    [text |-> "Task failed", taskId |-> taskId_,
     detail |-> OrElse(Get(statusPayload_, "message"), JSONstringify(statusPayload_))]

\* lines 403-405
FailedMessage(taskId_, statusPayload_) ==
    [text |-> "Task failed", taskId |-> taskId_,
     detail |-> OrElse(Get(statusPayload_, "error"),
                  OrElse(Get(statusPayload_, "message"),
                         JSONstringify(statusPayload_)))]

\* line 422
TimeoutMessage(taskId_, maxPollAttempts_) ==
    [text |-> "Task did not complete within polling limit",
     taskId |-> taskId_, attempts |-> maxPollAttempts_]

\* lines 326-356: the endpoint of a task
Endpoint(task_) ==
    CASE task_ = "transcribe" -> "/api/v1/transcribe/do_transcribe"
      [] task_ = "diarize" -> "/api/v1/diarization/do_diarize"
      [] task_ = "sentiment" -> "/api/v1/sentiment_analysis/analyze_file"
      [] task_ = "summarize" -> "/api/v1/ai_service/summarize_file"

\* lines 276-284: the prompt text is read for the sub-task user_prompt only
summarizePromptRawOf(summarizeTask, summarizePrompt) ==
    IF summarizeTask = "user_prompt"
    THEN (IF summarizePrompt # <<>> THEN summarizePrompt ELSE <<>>)
    ELSE <<>>

\* the mutant of promptToSend that sends the prompt untrimmed
promptToSendUntrimmed(summarizeTask, summarizePromptRaw) ==
    IF summarizeTask = "meeting_summary" THEN star
    ELSE IF trim(summarizePromptRaw) # <<>> THEN summarizePromptRaw ELSE star

\* lines 343-344
promptToSend(summarizeTask, summarizePromptRaw) ==
    IF summarizeTask = "meeting_summary" THEN star
    ELSE IF trim(summarizePromptRaw) # <<>> THEN trim(summarizePromptRaw) ELSE star

\* lines 438-442
transcriptionOf(finalResponse_) ==
    IF finalResponse_.t = "string" THEN Str(trim(finalResponse_.s))
    ELSE OrElse(Get(finalResponse_, "text"),
           OrElse(Get(finalResponse_, "transcription"),
             OrElse(Get(Get(finalResponse_, "data"), "text"), Str(<<>>))))

\* lines 448-451
summaryOf(finalResponse_) ==
    IF finalResponse_.t = "string" THEN finalResponse_
    ELSE OrElse(Get(finalResponse_, "summary"),
           OrElse(Get(finalResponse_, "result"),
             OrElse(Get(finalResponse_, "text"), finalResponse_)))

\* lines 429-452: the result object of an item
resultOf(task_, model_, binaryData_, finalResponse_) ==
    LET base == [task |-> task_, source_file |-> Get(binaryData_, "fileName")]
        tagged == IF task_ = "transcribe" /\ model_ # ""
                  THEN base @@ [model_used |-> model_]
                  ELSE base
    IN  CASE task_ = "transcribe" ->
               tagged @@ [transcription |-> transcriptionOf(finalResponse_)]
          [] task_ = "diarize" -> tagged @@ [diarization |-> finalResponse_]
          [] task_ = "sentiment" -> tagged @@ [sentiment |-> finalResponse_]
          [] task_ = "summarize" -> tagged @@ [summary |-> summaryOf(finalResponse_)]

\* the mutant of OutputRecord that pairs every record to the first item
OutputRecordUnpaired(result, binary, itemIndex) ==
    [json |-> result, binary |-> binary, pairedItem |-> [item |-> 0]]

\* lines 454-458
OutputRecord(result, binary, itemIndex) ==
    [json |-> result, binary |-> binary, pairedItem |-> [item |-> itemIndex]]

\* lines 462-465
ErrorRecord(error_, itemIndex) ==
    [json |-> [error |-> error_.message], pairedItem |-> [item |-> itemIndex]]

-----------------------------------------------------------------------------
(* execute (lines 196-473) as a state machine *)

NoError == [name |-> "none"]
NoVerdict == [done |-> FALSE]

\* the parameters the host hands out for one item (lines 259-284, 287);
\* a parameter the code does not read for the task is left at its empty value
ItemParams ==
    { [binaryProperty |-> bp, task |-> tk, model |-> md, summarizeTask |-> st,
       summarizeThinking |-> th, summarizePromptRaw |-> pr, nodeParams |-> np] :
        bp \in BinaryProperties, tk \in TaskTags, md \in Models \cup {""},
        st \in SummarizeTasks, th \in ThinkingFlags \cup {FALSE}, pr \in Prompts,
        np \in NodeParams }

ReadParams ==
    { p \in ItemParams :
        /\ (p.model # "") = (p.task = "transcribe")
        /\ p.task # "summarize" => p.summarizeTask = "" /\ ~p.summarizeThinking
        /\ (p.task # "summarize" \/ p.summarizeTask # "user_prompt")
              => p.summarizePromptRaw = <<>>
        /\ p.task # "summarize" =>
              DOMAIN p.nodeParams \subseteq {"pollIntervalMs", "maxPollAttempts"} }

Indices == 0..(Len(items) - 1)

\* the block's locals before they are assigned, and after the block is left
LocalsIdle ==
    /\ task' = ""
    /\ model' = ""
    /\ binaryData' = Undef
    /\ pollIntervalMs' = 0
    /\ maxPollAttempts' = 0
    /\ url' = ""
    /\ qs' = Undef
    /\ createResp' = Undef
    /\ taskId' = Undef
    /\ statusPayload' = Null
    /\ finalResponse' = Undef
    /\ completed' = FALSE
    /\ attempt' = 0

\* the loop's i++ (line 257): the next item starts with nothing issued
NextItem ==
    /\ i' = i + 1
    /\ pc' = "loop"
    /\ nCreate' = 0
    /\ nStatus' = 0
    /\ nSleep' = 0
    /\ slept' = 0

\* a throw inside the try block: control goes to the catch (line 459)
Throw(err, how) ==
    /\ error' = err
    /\ outcome' = [outcome EXCEPT ![i] = how]
    /\ pc' = "catch"
    /\ UNCHANGED <<host, returnData, i, counters, submitted, polled, probing>>

\* a configuration error: thrown with only the first locals assigned
ThrowConfig(p, bin, message) ==
    /\ Throw(NodeOperationError(message, i), "config")
    /\ task' = p.task
    /\ model' = p.model
    /\ binaryData' = bin
    /\ UNCHANGED <<pollIntervalMs, maxPollAttempts, url, qs, polling>>

KnownTasks == {"transcribe", "diarize", "sentiment", "summarize"}

\* the mutant of MissingSummarizeTask that lets an empty selector through
MissingSummarizeTaskNever(task_, summarizeTask) == FALSE

\* line 337, inside case 'summarize'
MissingSummarizeTask(task_, summarizeTask) ==
    task_ = "summarize" /\ summarizeTask = ""

\* lines 257-356: read the parameters, check the configuration, fix the policy
Prepare ==
    /\ pc = "loop"
    /\ i < Len(items)
    /\ \E p \in ReadParams :
         LET bin == Get(items[i + 1].binary, p.binaryProperty)
             policy == pollPolicy(p.task, p.nodeParams)
         IN  IF ~Truthy(bin)
             THEN ThrowConfig(p, bin, NoBinaryMessage(p.binaryProperty))
             ELSE IF MissingSummarizeTask(p.task, p.summarizeTask)
             THEN ThrowConfig(p, bin, NoSummarizeTaskMessage)
             ELSE IF p.task \notin KnownTasks
             THEN ThrowConfig(p, bin, UnknownTaskMessage(p.task))
             ELSE /\ policy.attempts <= MaxAttempts
                  /\ task' = p.task
                  /\ model' = p.model
                  /\ binaryData' = bin
                  /\ pollIntervalMs' = policy.interval
                  /\ maxPollAttempts' = policy.attempts
                  /\ url' = Endpoint(p.task)
                  /\ qs' = IF p.task = "summarize"
                           THEN [task |-> p.summarizeTask,
                                 prompt |-> promptToSend(p.summarizeTask,
                                                         p.summarizePromptRaw),
                                 thinking |-> p.summarizeThinking]
                           ELSE Undef
                  /\ pc' = "submit"
                  /\ UNCHANGED <<host, returnData, i, polling, error, counters,
                                 submitted, polled, outcome, probing>>

\* the mutant of SendCreate that submits the remaining items all at once
SendCreateFanOut ==
    /\ pc = "submit"
    /\ nCreate' = nCreate + 1
    /\ submitted' = submitted \cup (i..(Len(items) - 1))
    /\ pc' = "awaitCreate"
    /\ UNCHANGED <<host, returnData, i, config, polling, error, nStatus, nSleep,
                   slept, polled, outcome, probing>>

\* line 378: the submission request is handed to the transport
SendCreate ==
    /\ pc = "submit"
    /\ nCreate' = nCreate + 1
    /\ submitted' = submitted \cup {i}
    /\ pc' = "awaitCreate"
    /\ UNCHANGED <<host, returnData, i, config, polling, error, nStatus, nSleep,
                   slept, polled, outcome, probing>>

\* the mutant of PollGate that polls unless the id is null
PollGateNotNull(taskId_) == taskId_ # Null

\* line 384: if (taskId)
PollGate(taskId_) == Truthy(taskId_)

\* lines 378-388: the create response arrives
RecvCreate ==
    /\ pc = "awaitCreate"
    /\ \E resp \in CreateResponses :
         /\ createResp' = resp
         /\ finalResponse' = resp
         /\ taskId' = extractTaskId(resp)
         /\ IF PollGate(extractTaskId(resp))
            THEN pc' = "pollHead" /\ attempt' = 1
            ELSE pc' = "output" /\ attempt' = attempt
    /\ UNCHANGED <<host, returnData, i, config, statusPayload, completed, error,
                   counters, submitted, polled, outcome, probing>>

\* lines 207-213: the transport throws on the submission
FailCreate ==
    /\ pc = "awaitCreate"
    /\ \E e \in TransportErrors : Throw(NodeApiError(e, i), "transport")
    /\ UNCHANGED <<config, polling>>

\* the mutant of PollGuard that runs the loop once more
PollGuardOffByOne == attempt <= maxPollAttempts + 1

\* line 390: the loop condition
PollGuard == attempt <= maxPollAttempts

\* lines 390-398: one more status request
SendStatus ==
    /\ pc = "pollHead"
    /\ PollGuard
    /\ nStatus' = nStatus + 1
    /\ polled' = polled \cup {i}
    /\ pc' = "awaitStatus"
    /\ UNCHANGED <<host, returnData, i, config, polling, error, nCreate, nSleep,
                   slept, submitted, outcome, probing>>

\* lines 400-414: the status response arrives and is classified
RecvStatus ==
    /\ pc = "awaitStatus"
    /\ \E p \in StatusResponses :
         CASE Classify(p) = "failure" ->
                /\ statusPayload' = p
                /\ Throw(NodeOperationError(FailedMessage(taskId, p), i), "failed")
                /\ UNCHANGED <<config, createResp, taskId, finalResponse, completed,
                               attempt>>
           [] Classify(p) = "success" ->
                /\ statusPayload' = p
                /\ finalResponse' = unwrapFinalPayload(p)
                /\ completed' = TRUE
                /\ pc' = "output"
                /\ UNCHANGED <<host, returnData, i, config, createResp, taskId,
                               attempt, error, counters, submitted, polled, outcome,
                               probing>>
           [] Classify(p) = "running" ->
                /\ statusPayload' = p
                /\ pc' = "sleep"
                /\ UNCHANGED <<host, returnData, i, config, createResp, taskId,
                               finalResponse, completed, attempt, error, counters,
                               submitted, polled, outcome, probing>>

\* lines 207-213: the transport throws on a status request
FailStatus ==
    /\ pc = "awaitStatus"
    /\ \E e \in TransportErrors : Throw(NodeApiError(e, i), "transport")
    /\ UNCHANGED <<config, polling>>

\* the mutant of Sleep that waits the default interval, not the item's
SleepDefaultInterval ==
    /\ pc = "sleep"
    /\ nSleep' = nSleep + 1
    /\ slept' = DefaultPollIntervalMs
    /\ attempt' = attempt + 1
    /\ pc' = "pollHead"
    /\ UNCHANGED <<host, returnData, i, config, createResp, taskId, statusPayload,
                   finalResponse, completed, error, nCreate, nStatus, submitted,
                   polled, outcome, probing>>

\* line 416 and the loop's attempt++
Sleep ==
    /\ pc = "sleep"
    /\ nSleep' = nSleep + 1
    /\ slept' = pollIntervalMs
    /\ attempt' = attempt + 1
    /\ pc' = "pollHead"
    /\ UNCHANGED <<host, returnData, i, config, createResp, taskId, statusPayload,
                   finalResponse, completed, error, nCreate, nStatus, submitted,
                   polled, outcome, probing>>

\* the mutant of Timeout that starts the poll loop over instead of giving up
TimeoutStartsOver ==
    /\ pc = "pollHead"
    /\ ~PollGuard
    /\ ~completed
    /\ attempt' = 1
    /\ nStatus' = 0
    /\ nSleep' = 0
    /\ UNCHANGED <<host, returnData, i, pc, config, createResp, taskId, statusPayload,
                   finalResponse, completed, error, nCreate, slept, submitted,
                   polled, outcome, probing>>

\* lines 419-425: the loop ran out
Timeout ==
    /\ pc = "pollHead"
    /\ ~PollGuard
    /\ ~completed
    /\ Throw(NodeOperationError(TimeoutMessage(taskId, maxPollAttempts), i), "timedout")
    /\ UNCHANGED <<config, polling>>

\* lines 428-458: build the record of the item and append it
Output ==
    /\ pc = "output"
    /\ returnData' = Append(returnData,
                            OutputRecord(resultOf(task, model, binaryData, finalResponse),
                                         items[i + 1].binary, i))
    /\ outcome' = [outcome EXCEPT ![i] = IF completed THEN "succeeded" ELSE "final"]
    /\ NextItem
    /\ LocalsIdle
    /\ UNCHANGED <<host, error, submitted, polled, probing>>

\* the mutant of Catch that continues whatever the host says
CatchAlwaysContinue ==
    /\ pc = "catch"
    /\ returnData' = Append(returnData, ErrorRecord(error, i))
    /\ error' = NoError
    /\ NextItem
    /\ LocalsIdle
    /\ UNCHANGED <<host, submitted, polled, outcome, probing>>

\* lines 459-469: the try block is left, and with it its locals
Catch ==
    /\ pc = "catch"
    /\ IF continueOnFail
       THEN /\ returnData' = Append(returnData, ErrorRecord(error, i))
            /\ error' = NoError
            /\ NextItem
       ELSE /\ pc' = "raised"
            /\ UNCHANGED <<returnData, error, i, counters>>
    /\ LocalsIdle
    /\ UNCHANGED <<host, submitted, polled, outcome, probing>>

\* line 472
Return ==
    /\ pc = "loop"
    /\ i = Len(items)
    /\ pc' = "returned"
    /\ UNCHANGED <<host, returnData, i, config, polling, error, counters,
                   submitted, polled, outcome, probing>>

Init ==
    /\ items \in ItemLists
    /\ continueOnFail \in BOOLEAN
    /\ returnData = <<>>
    /\ i = 0
    /\ pc = "loop"
    /\ task = ""
    /\ model = ""
    /\ binaryData = Undef
    /\ pollIntervalMs = 0
    /\ maxPollAttempts = 0
    /\ url = ""
    /\ qs = Undef
    /\ createResp = Undef
    /\ taskId = Undef
    /\ statusPayload = Null
    /\ finalResponse = Undef
    /\ completed = FALSE
    /\ attempt = 0
    /\ error = NoError
    /\ nCreate = 0
    /\ nStatus = 0
    /\ nSleep = 0
    /\ slept = 0
    /\ submitted = {}
    /\ polled = {}
    /\ outcome = [k \in Indices |-> "none"]
    /\ probe = Undef
    /\ verdict = NoVerdict

Next ==
    \/ Prepare
    \/ SendCreate
    \/ RecvCreate
    \/ FailCreate
    \/ SendStatus
    \/ RecvStatus
    \/ FailStatus
    \/ Sleep
    \/ Timeout
    \/ Output
    \/ Catch
    \/ Return

Spec == Init /\ [][Next]_vars

\* execute under a transport that answers every request, with a response or
\* an error, and a host that lets the code run: no step stays enabled forever
\* without being taken
FairInit == Init /\ Len(items) <= MaxLiveItems

FairSpec == FairInit /\ [][Next]_vars /\ WF_vars(Next)

-----------------------------------------------------------------------------
(* The classifiers applied to status payloads of every shape *)

LowerOf(c) == IF c \in DOMAIN UpperCase THEN UpperCase[c] ELSE c
UpperOf(c) ==
    IF \E u \in DOMAIN UpperCase : UpperCase[u] = c
    THEN CHOOSE u \in DOMAIN UpperCase : UpperCase[u] = c
    ELSE c

\* the spellings of a word w that differ by case and surrounding white space
Shout(w) == [n \in 1..Len(w) |-> UpperOf(w[n])]
Padded(w) == <<" ">> \o w \o <<"\n">>
Spellings(w) == {w, Shout(w), Padded(<<UpperOf(w[1])>> \o Tail(w))}

OtherWords == { <<"a","r","c","h","i","v","e","d">> }
StatusWords == SuccessWords \cup ProcessingWords \cup FailureWords \cup OtherWords

\* field values that carry no status: absent, not a string, empty, blank
BlankStatusValues == {Undef, Num(1), Str(<<>>), Str(<<" ">>)}
WordStatusValues == { Str(v) : v \in UNION {Spellings(w) : w \in StatusWords} }
StatusFieldValues == BlankStatusValues \cup WordStatusValues

\* what a lower-priority field holds while a higher one carries the status
ShadowedStatusValues ==
    {Undef} \cup { Str(w) : w \in { <<"c","o","m","p","l","e","t","e","d">>,
                                    <<"p","r","o","c","e","s","s","i","n","g">>,
                                    <<"f","a","i","l","e","d">> } \cup OtherWords }

StatusTriples ==
    { t \in StatusFieldValues \X StatusFieldValues \X StatusFieldValues :
        /\ t[1] \in BlankStatusValues \/ t[2] \in ShadowedStatusValues
        /\ (t[1] \in BlankStatusValues /\ t[2] \in BlankStatusValues)
              \/ t[3] \in ShadowedStatusValues }

ResultQuads ==
    {Undef, Null, Obj([text |-> Str(hello)])} \X {Undef, Str(<<"x">>)}
        \X {Undef, Num(0)} \X {Undef, Bool(FALSE)}

\* the object with exactly the fields that are given a value
MakePayload(t, r) ==
    LET all == [status |-> t[1], state |-> t[2], task_status |-> t[3],
                result |-> r[1], data |-> r[2], output |-> r[3], response |-> r[4]]
        keys == { k \in DOMAIN all : all[k] # Undef }
    IN  Obj([k \in keys |-> all[k]])

ProbePayloads ==
    { MakePayload(t, r) : t \in StatusTriples, r \in ResultQuads }
        \cup {Null, Undef, Str(hello)}

\* lines 400-416 on one payload: both classifiers, and the unwrapper
ClassifyProbe ==
    /\ pc = "probe"
    /\ verdict = NoVerdict
    /\ verdict' = [done |-> TRUE,
                   failure |-> isTerminalFailure(probe),
                   success |-> isTerminalSuccess(probe),
                   class |-> Classify(probe),
                   unwrapped |-> unwrapFinalPayload(probe)]
    /\ UNCHANGED <<host, returnData, i, pc, config, polling, error, counters,
                   submitted, polled, outcome, probe>>

ClassifyInit ==
    /\ probe \in ProbePayloads
    /\ verdict = NoVerdict
    /\ pc = "probe"
    /\ items = <<>>
    /\ continueOnFail = FALSE
    /\ returnData = <<>>
    /\ i = 0
    /\ task = ""
    /\ model = ""
    /\ binaryData = Undef
    /\ pollIntervalMs = 0
    /\ maxPollAttempts = 0
    /\ url = ""
    /\ qs = Undef
    /\ createResp = Undef
    /\ taskId = Undef
    /\ statusPayload = Null
    /\ finalResponse = Undef
    /\ completed = FALSE
    /\ attempt = 0
    /\ error = NoError
    /\ nCreate = 0
    /\ nStatus = 0
    /\ nSleep = 0
    /\ slept = 0
    /\ submitted = {}
    /\ polled = {}
    /\ outcome = <<>>

ClassifyNext == ClassifyProbe

ClassifySpec == ClassifyInit /\ [][ClassifyNext]_vars

-----------------------------------------------------------------------------
(* extractTaskId applied to create responses of every shape *)

\* the rest of the state while a helper is applied on its own
HelperIdle ==
    /\ verdict = NoVerdict
    /\ items = <<>>
    /\ continueOnFail = FALSE
    /\ returnData = <<>>
    /\ i = 0
    /\ task = ""
    /\ model = ""
    /\ binaryData = Undef
    /\ pollIntervalMs = 0
    /\ maxPollAttempts = 0
    /\ url = ""
    /\ qs = Undef
    /\ createResp = Undef
    /\ taskId = Undef
    /\ statusPayload = Null
    /\ finalResponse = Undef
    /\ completed = FALSE
    /\ attempt = 0
    /\ error = NoError
    /\ nCreate = 0
    /\ nStatus = 0
    /\ nSleep = 0
    /\ slept = 0
    /\ submitted = {}
    /\ polled = {}
    /\ outcome = <<>>

\* what a candidate id field holds: nothing, a falsy value, an id
IdValues == {Undef, Null, Str(<<>>), Num(0), Str(<<"x">>), Str(<<"y">>)}
TaskValues ==
    {Undef, Null, Str(<<"t">>), EmptyObj, Obj([id |-> Str(<<>>)]),
     Obj([id |-> Str(<<"x">>)]), Obj([id |-> Str(<<"z">>)])}

\* the object with exactly the candidate fields that are given a value
MakeResponse(q) ==
    LET all == [task_id |-> q[1], taskId |-> q[2], id |-> q[3], task |-> q[4]]
        keys == { k \in DOMAIN all : all[k] # Undef }
    IN  Obj([k \in keys |-> all[k]])

NonObjects ==
    {Undef, Null, Str(<<>>), Str(hello), Num(0), Num(7), Bool(FALSE), Bool(TRUE)}

ExtractInputs ==
    { MakeResponse(q) : q \in IdValues \X IdValues \X IdValues \X TaskValues }
        \cup NonObjects \cup {Arr(<<>>), Arr(<<Str(<<"x">>)>>)}

\* line 381 on one create response
ExtractProbe ==
    /\ pc = "extract"
    /\ verdict = NoVerdict
    /\ verdict' = [done |-> TRUE, taskId |-> extractTaskId(probe)]
    /\ UNCHANGED <<host, returnData, i, pc, config, polling, error, counters,
                   submitted, polled, outcome, probe>>

ExtractInit ==
    /\ probe \in ExtractInputs
    /\ pc = "extract"
    /\ HelperIdle

ExtractNext == ExtractProbe

ExtractSpec == ExtractInit /\ [][ExtractNext]_vars

-----------------------------------------------------------------------------
(* The poll policy computed for stored parameters of every kind *)

PolicyIntervals ==
    {Num(0), Num(499), Num(500), Num(501), Num(1000), Num(900000), Num(900001)}
PolicyAttempts ==
    {Num(-1), Num(0), Num(1), Num(2), Num(200), Num(300), Num(1000), Num(1001)}

\* what the legacy keys may hold besides numbers: workflow JSON stores any value
LegacyIntervalRaws ==
    PolicyIntervals \cup {Str(<<"7","0","0">>), Str(<<" ","1","0","0","0">>),
                          Str(abc), Null, Bool(TRUE)}
LegacyAttemptRaws ==
    PolicyAttempts \cup {Str(<<"3">>), Str(<<"2","0","0">>), Str(<<>>), Str(<<"x">>)}

PolicyParamValues(task_, key) ==
    CASE key = "pollIntervalMs" ->
            IF task_ = "summarize" THEN LegacyIntervalRaws ELSE PolicyIntervals
      [] key = "pollIntervalMsSummarize" -> PolicyIntervals
      [] key = "maxPollAttempts" ->
            IF task_ = "summarize" THEN LegacyAttemptRaws ELSE PolicyAttempts
      [] key = "maxPollAttemptsSummarize" -> PolicyAttempts

\* the parameter bag with exactly the keys that are given a value
MakeNodeParams(q) ==
    LET all == [pollIntervalMs |-> q[1], pollIntervalMsSummarize |-> q[2],
                maxPollAttempts |-> q[3], maxPollAttemptsSummarize |-> q[4]]
        keys == { k \in DOMAIN all : all[k] # Undef }
    IN  [k \in keys |-> all[k]]

PolicyNodeParams(task_) ==
    { MakeNodeParams(q) :
        q \in (PolicyParamValues(task_, "pollIntervalMs") \cup {Undef})
             \X (PolicyParamValues(task_, "pollIntervalMsSummarize") \cup {Undef})
             \X (PolicyParamValues(task_, "maxPollAttempts") \cup {Undef})
             \X (PolicyParamValues(task_, "maxPollAttemptsSummarize") \cup {Undef}) }

\* the task and the stored parameters of an item, for the tasks given
PolicyInputs(tasks) ==
    UNION { { [task |-> tk, nodeParams |-> np] : np \in PolicyNodeParams(tk) } :
            tk \in tasks }

\* lines 287-318 on the parameters of one item
PolicyProbe ==
    /\ pc = "policy"
    /\ verdict = NoVerdict
    /\ verdict' = [done |-> TRUE,
                   interval |-> pollPolicy(probe.task, probe.nodeParams).interval,
                   attempts |-> pollPolicy(probe.task, probe.nodeParams).attempts]
    /\ UNCHANGED <<host, returnData, i, pc, config, polling, error, counters,
                   submitted, polled, outcome, probe>>

PolicyInit ==
    /\ probe \in PolicyInputs(KnownTasks)
    /\ pc = "policy"
    /\ HelperIdle

PolicyNext == PolicyProbe

PolicySpec == PolicyInit /\ [][PolicyNext]_vars

-----------------------------------------------------------------------------
(* The summarize query built for sub-tasks and prompts of every kind *)

\* the sub-task selector: the two options, and a value outside them
PromptSubTasks == {"meeting_summary", "user_prompt", "action_items"}

\* prompt texts: every string of at most three of these characters
PromptChars == {" ", "\n", "a", "B"}
PromptTexts == UNION { [1..n -> PromptChars] : n \in 0..3 }

PromptInputs ==
    { [summarizeTask |-> st, summarizePrompt |-> pr, summarizeThinking |-> th] :
        st \in PromptSubTasks, pr \in PromptTexts, th \in BOOLEAN }

\* lines 278-284 and 343-351 on the summarize parameters of one item
PromptProbe ==
    /\ pc = "prompt"
    /\ verdict = NoVerdict
    /\ verdict' =
          [done |-> TRUE,
           qs |-> [task |-> probe.summarizeTask,
                   prompt |-> promptToSend(probe.summarizeTask,
                                 summarizePromptRawOf(probe.summarizeTask,
                                                      probe.summarizePrompt)),
                   thinking |-> probe.summarizeThinking]]
    /\ UNCHANGED <<host, returnData, i, pc, config, polling, error, counters,
                   submitted, polled, outcome, probe>>

PromptInit ==
    /\ probe \in PromptInputs
    /\ pc = "prompt"
    /\ HelperIdle

PromptNext == PromptProbe

PromptSpec == PromptInit /\ [][PromptNext]_vars

-----------------------------------------------------------------------------
(* Properties of the poll loop and of the per-item error handling *)

StatusFieldNames == <<"status", "state", "task_status">>
PollingPcs == {"pollHead", "awaitStatus", "sleep"}
ErrorOutcomes == {"config", "transport", "failed", "timedout"}

\* v is a string that spells one of the words, whatever the case of its
\* letters and the white space around it
Spells(v, words) ==
    /\ v.t = "string"
    /\ \E w \in words : \E a \in 0..Len(v.s) :
          /\ a + Len(w) <= Len(v.s)
          /\ \A n \in 1..a : v.s[n] \in WhiteSpace
          /\ \A n \in 1..Len(w) : LowerOf(v.s[a + n]) = w[n]
          /\ \A n \in (a + Len(w) + 1)..Len(v.s) : v.s[n] \in WhiteSpace

\* v carries no status: it is no string, or a string of white space only
CarriesNoStatus(v) == v.t # "string" \/ \A n \in 1..Len(v.s) : v.s[n] \in WhiteSpace

\* the n-th status field of p spells one of the words, and no field before it
\* carries a status
CarriesStatus(p, n, words) ==
    /\ Spells(Get(p, StatusFieldNames[n]), words)
    /\ \A m \in 1..(n - 1) : CarriesNoStatus(Get(p, StatusFieldNames[m]))

HoldsStatus(p, words) == \E n \in 1..3 : CarriesStatus(p, n, words)

\* the value of the first result-bearing field that is neither absent nor
\* null, else the payload
FirstResult(p) ==
    IF \E n \in 1..4 : Get(p, ResultFields[n]) \notin {Undef, Null}
    THEN Get(p, ResultFields[CHOOSE n \in 1..4 :
                   /\ Get(p, ResultFields[n]) \notin {Undef, Null}
                   /\ \A m \in 1..(n - 1) : Get(p, ResultFields[m]) \in {Undef, Null}])
    ELSE p

\* C1: while every status response is classified as still running, the loop
\* issues one status request per attempt and never more than maxPollAttempts
\* (the clamped limit); after the maxPollAttempts-th the only step left is the
\* timeout, whose error names the handle and the attempt count.
C1_TimeoutAfterExactlyMaxPolls ==
    /\ pc \in PollingPcs =>
          /\ maxPollAttempts \in MaxPollAttemptsMin..MaxPollAttemptsMax
          /\ nStatus <= maxPollAttempts
          /\ nStatus = IF pc = "pollHead" THEN attempt - 1 ELSE attempt
    /\ (pc = "pollHead" /\ nStatus = maxPollAttempts) =>
          ENABLED Timeout /\ ~ENABLED SendStatus
    /\ (pc = "pollHead" /\ nStatus < maxPollAttempts) =>
          ENABLED SendStatus /\ ~ENABLED Timeout
    /\ (pc = "catch" /\ outcome[i] = "timedout") =>
          /\ nStatus = maxPollAttempts
          /\ nSleep = maxPollAttempts
          /\ Truthy(taskId)
          /\ error = [name |-> "NodeOperationError",
                      message |-> [text |-> "Task did not complete within polling limit",
                                   taskId |-> taskId, attempts |-> nStatus],
                      itemIndex |-> i]

C1_Witness ==
    /\ pc = "catch"
    /\ outcome[i] = "timedout"
    /\ maxPollAttempts = MaxAttempts
    /\ nStatus = MaxAttempts
    /\ error.message.taskId = Str(abc)

\* the text a failure error carries: the error field, else the message field,
\* else the serialised payload
FailureDetail(p) ==
    IF Truthy(Get(p, "error")) THEN Get(p, "error")
    ELSE IF Truthy(Get(p, "message")) THEN Get(p, "message")
    ELSE JSONstringify(p)

\* C2: a status payload whose status is failed, error, canceled or cancelled
\* is a terminal failure; in the poll loop such a response raises the item's
\* error at once, its message built from the error field, else the message
\* field, else the raw payload, and no status request or sleep can follow.
C2_FailureStopsPolling ==
    /\ \A w \in FailureWords, n \in 1..3 :
          isTerminalFailure(Obj([k \in {StatusFieldNames[n]} |-> Str(w)]))
    /\ [](/\ pc \in PollingPcs \cup {"output"} =>
                ~HoldsStatus(statusPayload, FailureWords)
          /\ (pc = "catch" /\ outcome[i] = "failed") =>
                /\ HoldsStatus(statusPayload, FailureWords)
                /\ error = [name |-> "NodeOperationError",
                            message |-> [text |-> "Task failed", taskId |-> taskId,
                                         detail |-> FailureDetail(statusPayload)],
                            itemIndex |-> i]
                /\ nStatus = attempt
                /\ nSleep = attempt - 1
                /\ ~ENABLED SendStatus
                /\ ~ENABLED Sleep)

C2_Witness ==
    /\ pc = "catch"
    /\ outcome[i] = "failed"
    /\ nStatus = 2
    /\ Get(statusPayload, "status") = Str(<<"f","a","i","l","e","d">>)
    /\ error.message.detail = Str(badAudio)

\* the record the first end-to-end scenario ends with
ScenarioOneSuccess ==
    Obj([status |-> Str(<<"c","o","m","p","l","e","t","e","d">>),
         result |-> Obj([text |-> Str(hello)])])

\* C3: the poll loop ends at the first status response classified as success:
\* no status request or sleep can follow it, and the output record is built
\* from its unwrapped payload; a transcribe item whose second status response
\* is {status: completed, result: {text: hello}} took two status requests and
\* yields transcription "hello" with model_used the selected model.
C3_SuccessEndsPolling ==
    /\ [](pc = "output" /\ completed =>
            /\ isTerminalSuccess(statusPayload)
            /\ ~HoldsStatus(statusPayload, FailureWords \cup ProcessingWords)
            /\ finalResponse = FirstResult(statusPayload)
            /\ nStatus = attempt
            /\ nSleep = attempt - 1
            /\ ~ENABLED SendStatus
            /\ ~ENABLED Sleep)
    /\ [][pc = "output" /\ completed /\ task = "transcribe"
            /\ statusPayload = ScenarioOneSuccess =>
               returnData' = Append(returnData,
                   [json |-> [task |-> "transcribe",
                              source_file |-> Get(binaryData, "fileName"),
                              model_used |-> model,
                              transcription |-> Str(hello)],
                    binary |-> items[i + 1].binary,
                    pairedItem |-> [item |-> i]])]_vars

C3_Witness ==
    /\ pc = "loop"
    /\ i = 1
    /\ outcome[0] = "succeeded"
    /\ 0 \in polled
    /\ returnData[1].json = [task |-> "transcribe", source_file |-> Str(<<"f">>),
                             model_used |-> "palatine_small",
                             transcription |-> Str(hello)]

\* C4: status requests are issued for an item only if a task id was extracted
\* from its create response; without one no status request and no sleep
\* occurs, the create response itself goes to the output normaliser, and a
\* diarize or sentiment item puts it unchanged under its field.
C4_NoTaskIdNoPolling ==
    /\ [](/\ \A k \in polled : outcome[k] # "final"
          /\ (pc \in PollingPcs \/ (pc # "raised" /\ (nStatus > 0 \/ nSleep > 0))) =>
                /\ Truthy(taskId)
                /\ taskId \in { Get(createResp, "task_id"), Get(createResp, "taskId"),
                                Get(createResp, "id"),
                                Get(Get(createResp, "task"), "id") }
          /\ (pc = "output" /\ ~completed) =>
                /\ nStatus = 0
                /\ nSleep = 0
                /\ i \notin polled
                /\ finalResponse = createResp
                /\ ~Truthy(Get(createResp, "task_id"))
                /\ ~Truthy(Get(createResp, "taskId"))
                /\ ~Truthy(Get(createResp, "id"))
                /\ ~Truthy(Get(Get(createResp, "task"), "id")))
    /\ [][pc = "output" /\ ~completed /\ task \in {"diarize", "sentiment"} =>
            /\ Len(returnData') = Len(returnData) + 1
            /\ returnData'[Len(returnData')].json =
                  IF task = "diarize"
                  THEN [task |-> task, source_file |-> Get(binaryData, "fileName"),
                        diarization |-> createResp]
                  ELSE [task |-> task, source_file |-> Get(binaryData, "fileName"),
                        sentiment |-> createResp]]_vars

C4_Witness ==
    /\ pc = "loop"
    /\ i = 1
    /\ outcome[0] = "final"
    /\ 0 \in submitted
    /\ 0 \notin polled
    /\ returnData[1].json = [task |-> "diarize", source_file |-> Str(<<"f">>),
                             diarization |-> Obj([segments |-> Arr(<<Str(<<"s","1">>)>>)])]

\* C5: when execute returns, the output collection holds one record per input
\* item, the k-th paired to item k; the record of a processed item carries the
\* item's own binary attachment and no error, and the record of a failed item
\* holds an error message and the pairing index only (and exists only when the
\* host continues past failures). Until then one record per finished item.
C5_OneRecordPerItem ==
    /\ pc \notin {"returned", "raised"} => Len(returnData) = i
    /\ pc = "returned" =>
          /\ Len(returnData) = Len(items)
          /\ \A k \in Indices :
               LET r == returnData[k + 1]
               IN  /\ r.pairedItem = [item |-> k]
                   /\ outcome[k] \in {"final", "succeeded"} \cup ErrorOutcomes
                   /\ outcome[k] \in {"final", "succeeded"} =>
                         /\ DOMAIN r = {"json", "binary", "pairedItem"}
                         /\ r.binary = items[k + 1].binary
                         /\ Get(r.binary, "data") = File(k)
                         /\ "error" \notin DOMAIN r.json
                         /\ r.json.task \in KnownTasks
                   /\ outcome[k] \in ErrorOutcomes =>
                         /\ continueOnFail
                         /\ DOMAIN r = {"json", "pairedItem"}
                         /\ DOMAIN r.json = {"error"}

C5_Witness ==
    /\ pc = "returned"
    /\ Len(items) = 2
    /\ outcome[0] = "failed"
    /\ outcome[1] = "succeeded"
    /\ returnData[1] = [json |-> [error |-> [text |-> "Task failed", taskId |-> Str(abc),
                                             detail |-> Str(badAudio)]],
                        pairedItem |-> [item |-> 0]]
    /\ returnData[2].binary = Obj([data |-> File(1)])

\* C6: with continue-on-fail disabled the catch re-raises the item's error and
\* the run is over: no step follows, no request was issued for a later item
\* and nothing is returned; with it enabled the catch appends the error record
\* of item i and goes on to item i+1, which starts from the same fresh locals
\* and counters as after a processed item.
C6_ErrorPropagation ==
    /\ [](/\ pc = "raised" =>
                /\ ~continueOnFail
                /\ outcome[i] \in ErrorOutcomes
                /\ error.name \in {"NodeOperationError", "NodeApiError"}
                /\ submitted \subseteq 0..i
                /\ polled \subseteq 0..i
                /\ \A k \in Indices : k > i => outcome[k] = "none"
                /\ \A k \in Indices : k < i => outcome[k] \in {"final", "succeeded"}
                /\ Len(returnData) = i
                /\ ~ENABLED Next
          /\ pc = "loop" =>
                /\ error = NoError
                /\ config = <<"", "", Undef, 0, 0, "", Undef>>
                /\ polling = <<Undef, Undef, Null, Undef, FALSE, 0>>
                /\ counters = <<0, 0, 0, 0>>
                /\ submitted \subseteq 0..(i - 1)
                /\ polled \subseteq 0..(i - 1)
                /\ \A k \in Indices : k >= i => outcome[k] = "none")
    /\ [][pc = "catch" =>
            IF continueOnFail
            THEN /\ returnData' = Append(returnData,
                                         [json |-> [error |-> error.message],
                                          pairedItem |-> [item |-> i]])
                 /\ i' = i + 1
                 /\ pc' = "loop"
            ELSE /\ pc' = "raised"
                 /\ returnData' = returnData
                 /\ error' = error
                 /\ i' = i]_vars

C6_Witness ==
    /\ pc = "awaitStatus"
    /\ i = 1
    /\ continueOnFail
    /\ outcome[0] = "timedout"
    /\ returnData[1].pairedItem.item = 0
    /\ nCreate = 1
    /\ nStatus = 1

\* C7: a transport failure on the submission or on a status request reaches
\* the catch as an API error tagged with the item's index; no request is ever
\* issued twice (one submission per item, one status request per attempt), and
\* once an item has failed no request and no sleep is issued for it again.
C7_TransportNotRetried ==
    /\ [](/\ nCreate <= 1
          /\ pc # "raised" => nStatus <= attempt
          /\ (pc = "catch" /\ outcome[i] = "transport") =>
                /\ error.name = "NodeApiError"
                /\ error.itemIndex = i
                /\ error.message.cause \in TransportErrors
                /\ nCreate = 1
                /\ nStatus = attempt
                /\ nSleep = IF attempt = 0 THEN 0 ELSE attempt - 1
                /\ i \in submitted
                /\ ~ENABLED SendCreate
                /\ ~ENABLED SendStatus
                /\ ~ENABLED Sleep)
    /\ [][/\ i' >= i
          /\ (i' = i /\ i \in Indices /\ outcome[i] = "transport") =>
                /\ nCreate' = nCreate
                /\ nStatus' = nStatus
                /\ nSleep' = nSleep
                /\ submitted' = submitted
                /\ polled' = polled]_vars

C7_Witness ==
    /\ pc = "catch"
    /\ outcome[i] = "transport"
    /\ nStatus = 2
    /\ nSleep = 1
    /\ error.itemIndex = i
    /\ i = 1

\* C8: a configuration error (no binary data under the named property, a
\* summarize task with an empty sub-task selector, an unknown task) reaches the
\* catch tagged with the item's index with no request issued for the item, and
\* no request is ever issued for it; an item that is submitted has passed all
\* three checks.
C8_ConfigErrorBeforeSubmission ==
    /\ (pc = "catch" /\ outcome[i] = "config") =>
          /\ nCreate = 0
          /\ nStatus = 0
          /\ nSleep = 0
          /\ error.name = "NodeOperationError"
          /\ error.itemIndex = i
          /\ \/ /\ error.message.text = "No binary data in property"
                /\ ~Truthy(Get(items[i + 1].binary, error.message.property))
             \/ /\ error.message = [text |-> "Summarize: summarizeTask is missing"]
                /\ task = "summarize"
             \/ /\ error.message = [text |-> "Unknown task", task |-> task]
                /\ task \notin {"transcribe", "diarize", "sentiment", "summarize"}
          /\ ~ENABLED SendCreate
          /\ ~ENABLED SendStatus
    /\ \A k \in Indices : outcome[k] = "config" => k \notin submitted \cup polled
    /\ pc \in {"submit", "awaitCreate", "output"} \cup PollingPcs =>
          /\ Truthy(binaryData)
          /\ task \in {"transcribe", "diarize", "sentiment", "summarize"}
          /\ task = "summarize" => qs.task # ""
    /\ \A k \in submitted \cup polled :
          k \in Indices /\ (k < i => outcome[k] # "config")

C8_Witness ==
    /\ pc = "loop"
    /\ i = 2
    /\ continueOnFail
    /\ outcome[0] = "config"
    /\ outcome[1] = "config"
    /\ returnData[1].json.error = [text |-> "Summarize: summarizeTask is missing"]
    /\ returnData[2].json.error = [text |-> "Unknown task", task |-> "translate"]
    /\ submitted = {}

-----------------------------------------------------------------------------
(* Properties of the status classifiers *)

\* C9: a payload whose status (the first of status, state, task_status that is
\* a non-blank string) spells completed, done, success or finished, in any
\* case and with any white space around it, is a terminal success, whichever
\* of the three fields carries it.
C9_SuccessWordUnderAnyField ==
    verdict.done =>
        \A n \in 1..3 :
            CarriesStatus(probe, n, SuccessWords) =>
                /\ verdict.success
                /\ verdict.class = "success"

C9_Witness ==
    /\ verdict.done
    /\ verdict.success
    /\ probe = Obj([status |-> Str(<<" ">>),
                    task_status |-> Str(<<" ","F","i","n","i","s","h","e","d","\n">>)])

\* C10: a payload none of whose status fields carries a status and that has
\* one of result, data, output, response (whatever its value, null included)
\* is a terminal success; a payload whose status spells queued, pending,
\* processing, running or in_progress is not, result field or no, and the poll
\* loop classifies it as still running.
C10_ResultWithoutStatus ==
    verdict.done =>
        /\ (/\ \A n \in 1..3 : CarriesNoStatus(Get(probe, StatusFieldNames[n]))
            /\ probe.t = "object"
            /\ \E n \in 1..4 : ResultFields[n] \in DOMAIN probe.f)
              => verdict.success /\ verdict.class = "success"
        /\ \A n \in 1..3 :
              CarriesStatus(probe, n, ProcessingWords) =>
                 /\ ~verdict.success
                 /\ verdict.class = "running"

C10_Witness ==
    /\ verdict.done
    /\ ~verdict.success
    /\ verdict.class = "running"
    /\ probe = Obj([state |-> Str(<<" ","Q","u","e","u","e","d","\n">>),
                    result |-> Obj([text |-> Str(hello)]),
                    data |-> Str(<<"x">>)])

-----------------------------------------------------------------------------
(* Properties of extractTaskId *)

\* the candidate id fields of a response, in the order of precedence
IdCandidates(resp) ==
    <<Get(resp, "task_id"), Get(resp, "taskId"), Get(resp, "id"),
      Get(Get(resp, "task"), "id")>>

-----------------------------------------------------------------------------
(* Properties of the poll policy *)

\* the value of the range lo..hi nearest to v
Nearest(v, lo, hi) == IF v < lo THEN lo ELSE IF v > hi THEN hi ELSE v

\* the value configured for a setting of an item, before the clamp: for
\* summarize the summarize-specific value or the legacy one, otherwise the
\* stored value of the plain key, else its declared default
ConfiguredInterval(in) ==
    IF in.task = "summarize" THEN summarizeInterval(in.nodeParams)
    ELSE IF "pollIntervalMs" \in DOMAIN in.nodeParams
    THEN in.nodeParams["pollIntervalMs"].n
    ELSE 500

ConfiguredAttempts(in) ==
    IF in.task = "summarize" THEN summarizeAttempts(in.nodeParams)
    ELSE IF "maxPollAttempts" \in DOMAIN in.nodeParams
    THEN in.nodeParams["maxPollAttempts"].n
    ELSE 200

\* C12: the interval and the attempt limit an item is processed with lie in
\* 500..900000 and 1..1000: a configured value (the legacy one included)
\* below the range gives the lower bound, one above it the upper bound, and
\* one inside the range is used as it is.
C12_ClampLaw ==
    (pc = "policy" /\ verdict.done) =>
        /\ verdict.interval \in 500..900000
        /\ verdict.attempts \in 1..1000
        /\ verdict.interval = Nearest(ConfiguredInterval(probe), 500, 900000)
        /\ verdict.attempts = Nearest(ConfiguredAttempts(probe), 1, 1000)

C12_Witness ==
    /\ pc = "policy"
    /\ verdict.done
    /\ probe = [task |-> "summarize",
                nodeParams |-> [pollIntervalMs |-> Num(900001), maxPollAttempts |-> Num(0)]]
    /\ verdict.interval = 900000
    /\ verdict.attempts = 1

\* the stored value of a key of the parameter bag, else the declared default
StoredOr(np, key, default) == IF key \in DOMAIN np THEN np[key].n ELSE default

\* the value v is the number the raw legacy value stands for, clamped to lo..hi
IsLegacyClamped(v, raw, lo, hi) ==
    /\ ~isNaN(Number(raw))
    /\ v = Nearest(Number(raw).n, lo, hi)

\* C17 as stated: for a summarize item whose summarize-specific key is not
\* stored and whose legacy key holds a value other than its declared default
\* (500 ms, 200 attempts), the legacy value is used; otherwise the
\* summarize-specific value is.
C17_LegacyUsedWhenNotDeclaredDefault ==
    (pc = "policy" /\ verdict.done /\ probe.task = "summarize") =>
        LET np == probe.nodeParams
        IN  /\ IF /\ "pollIntervalMsSummarize" \notin DOMAIN np
                  /\ "pollIntervalMs" \in DOMAIN np
                  /\ np["pollIntervalMs"] # Num(500)
               THEN IsLegacyClamped(verdict.interval, np["pollIntervalMs"], 500, 900000)
               ELSE verdict.interval =
                        Nearest(StoredOr(np, "pollIntervalMsSummarize", 20000), 500, 900000)
            /\ IF /\ "maxPollAttemptsSummarize" \notin DOMAIN np
                  /\ "maxPollAttempts" \in DOMAIN np
                  /\ np["maxPollAttempts"] # Num(200)
               THEN IsLegacyClamped(verdict.attempts, np["maxPollAttempts"], 1, 1000)
               ELSE verdict.attempts =
                        Nearest(StoredOr(np, "maxPollAttemptsSummarize", 500), 1, 1000)

\* the values of the legacy keys that count as defaults, not as custom
LegacyIntervalDefaults == {500, 1000}
LegacyAttemptsDefaults == {200, 300}

\* the raw legacy value is a custom one: it stands for a number, and that
\* number is none of the defaults
IsCustomLegacy(raw, defaults) ==
    /\ ~isNaN(Number(raw))
    /\ Number(raw).n \notin defaults

\* C17, amended: for a summarize item and each of the two settings, the
\* legacy value is used (before the clamp) when the summarize-specific key is
\* not stored and the legacy key holds a number, or a value that converts to
\* one, other than 500 and 1000 (interval) or 200 and 300 (attempts); in
\* every other case the summarize-specific value is used, the stored one or
\* its default 20000 / 500. For transcribe, diarize and sentiment items the
\* plain keys alone decide, whatever the summarize-specific keys hold.
C17_LegacyOverride ==
    (pc = "policy" /\ verdict.done) =>
        LET np == probe.nodeParams
        IN  IF probe.task = "summarize"
            THEN /\ IF /\ "pollIntervalMsSummarize" \notin DOMAIN np
                       /\ "pollIntervalMs" \in DOMAIN np
                       /\ IsCustomLegacy(np["pollIntervalMs"], LegacyIntervalDefaults)
                    THEN IsLegacyClamped(verdict.interval, np["pollIntervalMs"], 500, 900000)
                    ELSE verdict.interval =
                             Nearest(StoredOr(np, "pollIntervalMsSummarize", 20000),
                                     500, 900000)
                 /\ IF /\ "maxPollAttemptsSummarize" \notin DOMAIN np
                       /\ "maxPollAttempts" \in DOMAIN np
                       /\ IsCustomLegacy(np["maxPollAttempts"], LegacyAttemptsDefaults)
                    THEN IsLegacyClamped(verdict.attempts, np["maxPollAttempts"], 1, 1000)
                    ELSE verdict.attempts =
                             Nearest(StoredOr(np, "maxPollAttemptsSummarize", 500), 1, 1000)
            ELSE /\ verdict.interval = Nearest(StoredOr(np, "pollIntervalMs", 500), 500, 900000)
                 /\ verdict.attempts = Nearest(StoredOr(np, "maxPollAttempts", 200), 1, 1000)

C17_Witness ==
    /\ pc = "policy"
    /\ verdict.done
    /\ probe = [task |-> "summarize",
                nodeParams |-> [pollIntervalMs |-> Str(<<"7","0","0">>),
                                maxPollAttempts |-> Num(2)]]
    /\ verdict.interval = 700
    /\ verdict.attempts = 2

-----------------------------------------------------------------------------
(* Properties of the order of processing *)

\* the items that were submitted and have not reached a terminal outcome
InFlight == { k \in Indices : k \in submitted /\ outcome[k] = "none" }

\* C13: at most one item is in flight, and it is the current one: every other
\* item a request was issued for has reached its terminal outcome, no request
\* was issued for a later item, and every step that issues a request issues
\* it for the current item, which has no outcome yet.
C13_SequentialItems ==
    /\ [](/\ Cardinality(InFlight) <= 1
          /\ InFlight \subseteq {i}
          /\ polled \subseteq submitted
          /\ \A k \in submitted : k <= i /\ (k # i => outcome[k] # "none")
          /\ Truthy(taskId) => i \in InFlight \/ pc = "catch")
    /\ [][/\ submitted' \ submitted \subseteq {i}
          /\ polled' \ polled \subseteq {i}
          /\ (nCreate' > nCreate \/ nStatus' > nStatus) =>
                /\ i' = i
                /\ outcome[i] = "none"
                /\ \A k \in Indices \ {i} : k \in submitted => outcome[k] # "none"
          /\ i' \in {i, i + 1}
          /\ i' = i + 1 => outcome'[i] # "none"]_vars

C13_Witness ==
    /\ pc = "awaitStatus"
    /\ i = 1
    /\ InFlight = {1}
    /\ polled = {0, 1}
    /\ outcome[0] = "succeeded"

-----------------------------------------------------------------------------
(* Termination *)

TerminalOutcomes == {"final", "succeeded", "failed", "timedout", "transport", "config"}

\* C14: when every request is answered, execute returns or raises, every
\* item that is submitted reaches a terminal outcome, and by the end every
\* item whose processing began has one; a
\* poll loop that is left before its attempts are exhausted is left on a
\* success response, a failure response or a transport error, and otherwise
\* on the timeout.
C14_Termination ==
    /\ <>(pc \in {"returned", "raised"})
    /\ \A k \in 0..(MaxLiveItems - 1) :
          (i = k /\ pc \in {"submit", "awaitCreate"} \cup PollingPcs)
              ~> (k \in DOMAIN outcome /\ outcome[k] \in TerminalOutcomes)
    /\ [](/\ pc = "returned" => \A k \in Indices : outcome[k] \in TerminalOutcomes
          /\ pc = "raised" => \A k \in 0..i : outcome[k] \in TerminalOutcomes)
    /\ [][(pc \in PollingPcs /\ pc' \notin PollingPcs) =>
            \/ /\ pc' = "output"
               /\ completed'
               /\ isTerminalSuccess(statusPayload')
            \/ /\ pc' = "catch"
               /\ outcome'[i] = "failed"
               /\ isTerminalFailure(statusPayload')
            \/ /\ pc' = "catch"
               /\ outcome'[i] = "transport"
               /\ pc = "awaitStatus"
            \/ /\ pc' = "catch"
               /\ outcome'[i] = "timedout"
               /\ nStatus = maxPollAttempts]_vars

C14_Witness ==
    /\ pc = "returned"
    /\ Len(items) = MaxLiveItems
    /\ continueOnFail
    /\ outcome[Len(items) - 1] = "timedout"
    /\ polled = Indices

-----------------------------------------------------------------------------
(* Properties of the summarize prompt *)

\* t is s without the white space at its two ends
IsTrimOf(t, s) ==
    /\ t = <<>> \/ (t[1] \notin WhiteSpace /\ t[Len(t)] \notin WhiteSpace)
    /\ \E a \in 0..Len(s) :
          /\ a + Len(t) <= Len(s)
          /\ \A n \in 1..a : s[n] \in WhiteSpace
          /\ \A n \in 1..Len(t) : s[a + n] = t[n]
          /\ \A n \in (a + Len(t) + 1)..Len(s) : s[n] \in WhiteSpace

OnlyWhiteSpace(s) == \A n \in 1..Len(s) : s[n] \in WhiteSpace

\* C15 as stated: the prompt sent is * for meeting_summary, and for any other
\* sub-task the configured prompt trimmed, or * when that is empty.
C15_PromptForAnyOtherSubTask ==
    (pc = "prompt" /\ verdict.done) =>
        IF probe.summarizeTask = "meeting_summary" \/ OnlyWhiteSpace(probe.summarizePrompt)
        THEN verdict.qs.prompt = <<"*">>
        ELSE IsTrimOf(verdict.qs.prompt, probe.summarizePrompt)

\* C15, amended: the prompt sent is * for meeting_summary whatever the
\* configured prompt; for user_prompt it is the configured prompt trimmed, or
\* * when that is empty or white space only; for any other sub-task the
\* configured prompt is not read and * is sent.
C15_PromptSent ==
    (pc = "prompt" /\ verdict.done) =>
        /\ verdict.qs.task = probe.summarizeTask
        /\ verdict.qs.thinking = probe.summarizeThinking
        /\ IF probe.summarizeTask = "user_prompt" /\ ~OnlyWhiteSpace(probe.summarizePrompt)
           THEN IsTrimOf(verdict.qs.prompt, probe.summarizePrompt)
           ELSE verdict.qs.prompt = <<"*">>

C15_Witness ==
    /\ pc = "prompt"
    /\ verdict.done
    /\ probe.summarizeTask = "user_prompt"
    /\ probe.summarizePrompt = <<" ", "a", "\n">>
    /\ verdict.qs.prompt = <<"a">>

-----------------------------------------------------------------------------
(* Properties of unwrapFinalPayload *)

\* the result-bearing fields the payload has, whatever they hold
PresentResults(p) ==
    IF p.t = "object"
    THEN { n \in 1..4 : ResultFields[n] \in DOMAIN p.f }
    ELSE {}

\* C18 as stated: unwrapFinalPayload returns the value of the first of
\* result, data, output, response that the payload has, and the whole payload
\* when it has none of the four.
C18_UnwrapFirstPresentField ==
    (pc = "probe" /\ verdict.done) =>
        IF PresentResults(probe) # {}
        THEN verdict.unwrapped =
                 probe.f[ResultFields[CHOOSE n \in PresentResults(probe) :
                                        \A m \in PresentResults(probe) : n <= m]]
        ELSE verdict.unwrapped = probe

\* C18, amended: unwrapFinalPayload answers on every payload (it never
\* raises): the value of the first of result, data, output, response, in that
\* order, that is present and not null; and the whole payload when each of
\* the four is absent or null, and for a payload that is no object.
C18_UnwrapFirstNonNull ==
    /\ (pc = "probe" /\ verdict.done) =>
          /\ \A n \in 1..4 :
                (/\ Get(probe, ResultFields[n]) \notin {Undef, Null}
                 /\ \A m \in 1..(n - 1) : Get(probe, ResultFields[m]) \in {Undef, Null})
                    => verdict.unwrapped = Get(probe, ResultFields[n])
          /\ (\A n \in 1..4 : Get(probe, ResultFields[n]) \in {Undef, Null})
                => verdict.unwrapped = probe
          /\ probe.t # "object" => verdict.unwrapped = probe
          /\ verdict.unwrapped \in {probe} \cup { Get(probe, ResultFields[n]) : n \in 1..4 }

C18_Witness ==
    /\ pc = "probe"
    /\ verdict.done
    /\ probe = Obj([status |-> Str(<<"d","o","n","e">>), result |-> Null,
                    data |-> Str(<<"x">>), output |-> Num(0)])
    /\ verdict.unwrapped = Str(<<"x">>)

-----------------------------------------------------------------------------
(* Properties of the classification of unknown statuses *)

\* the payload carries a status, and it spells none of the known words
CarriesUnknownStatus(p) ==
    \E n \in 1..3 :
        /\ ~CarriesNoStatus(Get(p, StatusFieldNames[n]))
        /\ \A m \in 1..(n - 1) : CarriesNoStatus(Get(p, StatusFieldNames[m]))
        /\ ~Spells(Get(p, StatusFieldNames[n]),
                   SuccessWords \cup FailureWords \cup ProcessingWords)

\* C19: a payload whose status is a word outside the success, failure and
\* still-running sets is a success, for the classifier and for the poll loop,
\* when it has one of result, data, output, response, and is still running
\* when it has none of them.
C19_UnknownStatus ==
    (pc = "probe" /\ verdict.done /\ CarriesUnknownStatus(probe)) =>
        /\ ~verdict.failure
        /\ IF PresentResults(probe) # {}
           THEN verdict.success /\ verdict.class = "success"
           ELSE ~verdict.success /\ verdict.class = "running"

C19_Witness ==
    /\ pc = "probe"
    /\ verdict.done
    /\ probe = Obj([status |-> Str(<<"a","r","c","h","i","v","e","d">>),
                    output |-> Num(0)])
    /\ verdict.success
    /\ verdict.class = "success"

\* the same status without a result-bearing field keeps the loop polling
C19_WitnessRunning ==
    /\ pc = "probe"
    /\ verdict.done
    /\ probe = Obj([status |-> Str(<<"a","r","c","h","i","v","e","d">>)])
    /\ ~verdict.success
    /\ verdict.class = "running"

-----------------------------------------------------------------------------
(* Agreement of the classifier and the unwrapper *)

\* C20: a payload the loop classifies as success although its status is no
\* success word (a result-bearing field made it one) is unwrapped to the
\* value of one of its fields result, data, output, response, never to the
\* whole payload.
C20_ClassifierAndUnwrapperAgree ==
    (/\ pc = "probe"
     /\ verdict.done
     /\ verdict.class = "success"
     /\ ~HoldsStatus(probe, SuccessWords)) =>
        /\ verdict.unwrapped \in { probe.f[ResultFields[n]] : n \in PresentResults(probe) }
        /\ verdict.unwrapped # probe

-----------------------------------------------------------------------------
(* Properties of the sleep between polls *)

\* C16 as stated: after the sleep that follows a still-running response, the
\* next step is another status request for the same handle.
C16_SleepAlwaysFollowedByRetry ==
    [][(pc = "pollHead" /\ nSleep > 0) =>
          /\ pc' = "awaitStatus"
          /\ nStatus' = nStatus + 1
          /\ taskId' = taskId]_vars

\* C16, amended: a status response classified as still running is followed
\* by one sleep of the item's poll interval (the configured value after the
\* clamp) and by nothing else; after the sleep comes another status request
\* for the same handle, except after the maxPollAttempts-th response, where
\* the timeout error comes instead.
C16_SleepThenRetryOrTimeout ==
    /\ [](pc = "sleep" =>
            /\ ~isTerminalFailure(statusPayload)
            /\ ~isTerminalSuccess(statusPayload)
            /\ pollIntervalMs \in 500..900000
            /\ nSleep = nStatus - 1
            /\ ENABLED Sleep
            /\ ~ENABLED SendStatus
            /\ ~ENABLED Timeout
            /\ ~ENABLED Output)
    /\ [][pc = "sleep" =>
            /\ pc' = "pollHead"
            /\ nSleep' = nSleep + 1
            /\ slept' = pollIntervalMs
            /\ taskId' = taskId
            /\ nStatus' = nStatus]_vars
    /\ [][(pc = "pollHead" /\ nSleep > 0) =>
            IF nStatus < maxPollAttempts
            THEN /\ pc' = "awaitStatus"
                 /\ nStatus' = nStatus + 1
                 /\ taskId' = taskId
                 /\ nSleep' = nSleep
            ELSE /\ pc' = "catch"
                 /\ outcome'[i] = "timedout"
                 /\ nStatus' = nStatus]_vars

C16_Witness ==
    /\ pc = "awaitStatus"
    /\ nStatus = 2
    /\ nSleep = 1
    /\ slept = 700
    /\ pollIntervalMs = 700
    /\ taskId = Str(abc)
    /\ Get(statusPayload, "status") = Str(<<"q","u","e","u","e","d">>)

-----------------------------------------------------------------------------
(* Properties of the precedence of failure over success *)

\* the records of the output collection that are paired with item k
RecordsOf(k) ==
    { n \in 1..Len(returnData) : returnData[n].pairedItem.item = k }

\* the status response that is a failure and carries a result as well
FailedWithResult ==
    Obj([status |-> Str(<<"f","a","i","l","e","d">>), error |-> Str(badAudio),
         result |-> Obj([text |-> Str(hello)])])

\* a failure word in any spelling under any of the three status fields,
\* beside result-bearing fields of every kind
FailurePayloads ==
    { MakePayload([m \in 1..3 |-> IF m = n THEN Str(v) ELSE Undef], r) :
        v \in UNION { Spellings(w) : w \in FailureWords },
        n \in 1..3, r \in ResultQuads }

\* C21: a payload whose status spells a failure word is classified as a
\* failure by the poll loop, result-bearing field or no; the step that
\* receives it raises the item's error and appends no record, so an item
\* that failed never has an output record (only, when the host continues,
\* its error record) and an output record never stems from a failure
\* payload; an item's terminal outcome, once set, never changes, and no item
\* has more than one record.
C21_FailurePrecedence ==
    /\ \A p \in FailurePayloads :
          /\ Classify(p) = "failure"
          /\ PresentResults(p) # {} => isTerminalSuccess(p)
    /\ [](/\ \A k \in Indices :
                /\ Cardinality(RecordsOf(k)) <= 1
                /\ outcome[k] \in ErrorOutcomes =>
                      \A n \in RecordsOf(k) :
                          /\ DOMAIN returnData[n] = {"json", "pairedItem"}
                          /\ DOMAIN returnData[n].json = {"error"}
                /\ (\E n \in RecordsOf(k) : "binary" \in DOMAIN returnData[n]) =>
                      outcome[k] \in {"succeeded", "final"}
          /\ (pc = "output" \/ completed) => ~HoldsStatus(statusPayload, FailureWords))
    /\ [][(pc = "awaitStatus" /\ HoldsStatus(statusPayload', FailureWords)) =>
            /\ pc' = "catch"
            /\ outcome'[i] = "failed"
            /\ returnData' = returnData
            /\ ~completed'
            /\ finalResponse' = finalResponse]_vars
    /\ [][\A k \in Indices :
            outcome[k] \in TerminalOutcomes => outcome'[k] = outcome[k]]_vars

C21_Witness ==
    /\ pc = "catch"
    /\ i = 1
    /\ outcome[0] = "succeeded"
    /\ outcome[1] = "failed"
    /\ statusPayload = FailedWithResult
    /\ isTerminalSuccess(statusPayload)
    /\ isTerminalFailure(statusPayload)
    /\ nStatus = 2
    /\ error.message.detail = Str(badAudio)
    /\ RecordsOf(1) = {}
    /\ Len(returnData) = 1

====
